---- MODULE Spec2Model ----
(***************************************************************************)
(* The AQI forecast dashboard of src/main.py as a state machine.           *)
(*                                                                         *)
(* One run of main() is a pass through the stages                          *)
(*   load -> map -> parse -> select -> sort -> categorize -> metrics       *)
(*        -> current -> chart -> done                                      *)
(* over a pandas DataFrame.  A DataFrame is a record                       *)
(*   [cols |-> sequence of column labels, rows |-> sequence of rows]       *)
(* and a row is [src |-> position in the loaded dataset, cells |-> one     *)
(* cell per column label].  Column labels may repeat, as they do in        *)
(* pandas after a rename that sends two columns to one label.              *)
(*                                                                         *)
(* A cell is a record [kind, num, str]:                                    *)
(*   kind "raw"  a raw value that parses; num is what it parses to         *)
(*               (a timestamp in half hours since an epoch, UTC when it    *)
(*               carries no offset; an AQI reading in tenths)              *)
(*   kind "bad"  a raw value that is missing or does not parse             *)
(*   kind "ts"   a parsed timestamp, num is the instant                    *)
(*   kind "NaT"  the invalid timestamp marker                              *)
(*   kind "int"  an integer, kind "str" a string                           *)
(* A time zone conversion keeps the instant, so forecast_date_pkt holds    *)
(* the same instants as forecast_date_utc.                                 *)
(***************************************************************************)
EXTENDS Integers, Sequences, FiniteSets, TLC

VARIABLES pc, err, data_source, error, tried, raw, df, datetime_cols, aqi_cols,
          latest_preds, latest_run_time, shown, now, current_idx, arg, res

vars == <<pc, err, data_source, error, tried, raw, df, datetime_cols, aqi_cols,
          latest_preds, latest_run_time, shown, now, current_idx, arg, res>>

(* ----------------------------- bounds ---------------------------------- *)

MaxCols == 3
MaxRows == 2
MaxTime == 3
Margin == 20

(* ------------------------------ cells ---------------------------------- *)

Raw(n) == [kind |-> "raw", num |-> n, str |-> ""]
Bad == [kind |-> "bad", num |-> 0, str |-> ""]
Ts(n) == [kind |-> "ts", num |-> n, str |-> ""]
NaT == [kind |-> "NaT", num |-> 0, str |-> ""]
IntCell(n) == [kind |-> "int", num |-> n, str |-> ""]
StrCell(s) == [kind |-> "str", num |-> 0, str |-> s]

EmptyFrame == [cols |-> <<>>, rows |-> <<>>]
NoNow == 0 - 1

(* ------------------------- column name matching ------------------------ *)

Spell(s) ==
  CASE s = "datetime_utc" -> <<"d", "a", "t", "e", "t", "i", "m", "e", "_", "u", "t", "c">>
    [] s = "Datetime_UTC" -> <<"D", "a", "t", "e", "t", "i", "m", "e", "_", "U", "T", "C">>
    [] s = "datetime" -> <<"d", "a", "t", "e", "t", "i", "m", "e">>
    [] s = "timestamp" -> <<"t", "i", "m", "e", "s", "t", "a", "m", "p">>
    [] s = "predicted_us_aqi" -> <<"p", "r", "e", "d", "i", "c", "t", "e", "d", "_", "u", "s", "_", "a", "q", "i">>
    [] s = "Predicted_US_AQI" -> <<"P", "r", "e", "d", "i", "c", "t", "e", "d", "_", "U", "S", "_", "A", "Q", "I">>
    [] s = "aqi" -> <<"a", "q", "i">>
    [] s = "prediction_date" -> <<"p", "r", "e", "d", "i", "c", "t", "i", "o", "n", "_", "d", "a", "t", "e">>
    [] s = "model_version" -> <<"m", "o", "d", "e", "l", "_", "v", "e", "r", "s", "i", "o", "n">>
    [] s = "time" -> <<"t", "i", "m", "e">>
    [] s = "date" -> <<"d", "a", "t", "e">>
    [] s = "utc" -> <<"u", "t", "c">>
    [] s = "forecast_hour" -> <<"f", "o", "r", "e", "c", "a", "s", "t", "_", "h", "o", "u", "r">>
    [] OTHER -> <<>>

LowerChar(c) ==
  CASE c = "A" -> "a"
    [] c = "C" -> "c"
    [] c = "D" -> "d"
    [] c = "I" -> "i"
    [] c = "P" -> "p"
    [] c = "Q" -> "q"
    [] c = "S" -> "s"
    [] c = "T" -> "t"
    [] c = "U" -> "u"
    [] OTHER -> c

\* col.lower()
Lower(w) == [i \in 1..Len(w) |-> LowerChar(w[i])]

\* needle in hay, on character sequences
Contains(hay, needle) ==
  \E i \in 0..(Len(hay) - Len(needle)) :
    \A j \in 1..Len(needle) : hay[i + j] = needle[j]

\* 'pat' in col.lower()
InLower(pat, col) == Contains(Lower(Spell(col)), Spell(pat))

\* The raw column names a loaded dataset may carry.
ColumnNames ==
  {"datetime_utc", "Datetime_UTC", "datetime", "timestamp", "predicted_us_aqi",
   "Predicted_US_AQI", "aqi", "prediction_date", "model_version"}

(* ---------------------------- data frames ------------------------------ *)

\* the positions of the columns labelled n
ColIdx(f, n) == {j \in 1..Len(f.cols) : f.cols[j] = n}

\* 'n' in f.columns
HasCol(f, n) == ColIdx(f, n) # {}

\* the label n names one column (f[n] is a Series, not a DataFrame)
OneCol(f, n) == Cardinality(ColIdx(f, n)) = 1

TheCol(f, n) == CHOOSE j \in ColIdx(f, n) : TRUE

\* row[n], for a label that names one column
Cell(f, row, n) == row.cells[TheCol(f, n)]

\* f[n] = values (one value per row): replaces the column when the label
\* exists, appends a new column otherwise
SetCol(f, n, values) ==
  IF HasCol(f, n)
  THEN [f EXCEPT !.rows = [i \in 1..Len(f.rows) |->
         [f.rows[i] EXCEPT !.cells = [j \in 1..Len(f.cols) |->
            IF f.cols[j] = n THEN values[i] ELSE f.rows[i].cells[j]]]]]
  ELSE [cols |-> Append(f.cols, n),
        rows |-> [i \in 1..Len(f.rows) |->
                   [f.rows[i] EXCEPT !.cells = Append(f.rows[i].cells, values[i])]]]

\* f[n] as the sequence of its values
Column(f, n) == [i \in 1..Len(f.rows) |-> Cell(f, f.rows[i], n)]

(* -------------------------- helper functions --------------------------- *)

Labels ==
  {"Good", "Moderate", "Unhealthy for Sensitive Groups", "Unhealthy",
   "Very Unhealthy", "Hazardous"}

aqi_category_strict(aqi) ==
  IF aqi < 50 THEN "Good"
  ELSE IF aqi <= 100 THEN "Moderate"
  ELSE IF aqi <= 150 THEN "Unhealthy for Sensitive Groups"
  ELSE IF aqi <= 200 THEN "Unhealthy"
  ELSE IF aqi <= 300 THEN "Very Unhealthy"
  ELSE "Hazardous"

aqi_category_ranged(aqi) ==
  IF aqi < 0 \/ aqi > 500 THEN "RangeError"
  ELSE IF aqi <= 50 THEN "Good"
  ELSE IF aqi <= 100 THEN "Moderate"
  ELSE IF aqi <= 150 THEN "Unhealthy for Sensitive Groups"
  ELSE IF aqi <= 200 THEN "Unhealthy"
  ELSE IF aqi <= 300 THEN "Very Unhealthy"
  ELSE "Hazardous"

aqi_category(aqi) ==
  IF aqi <= 50 THEN "Good"
  ELSE IF aqi <= 100 THEN "Moderate"
  ELSE IF aqi <= 150 THEN "Unhealthy for Sensitive Groups"
  ELSE IF aqi <= 200 THEN "Unhealthy"
  ELSE IF aqi <= 300 THEN "Very Unhealthy"
  ELSE "Hazardous"

aqi_color(aqi) ==
  IF aqi <= 50 THEN "#00E400"
  ELSE IF aqi <= 100 THEN "#FFFF00"
  ELSE IF aqi <= 150 THEN "#FF7E00"
  ELSE IF aqi <= 200 THEN "#FF0000"
  ELSE IF aqi <= 300 THEN "#8F3F97"
  ELSE "#7E0023"

(* --------------------------- loaded datasets --------------------------- *)
(* What a loader may return.  A row of a dataset is drawn as a forecast    *)
(* time t, a prediction run time r and an AQI reading a; every time-like   *)
(* column carries t, every AQI-like column a, prediction_date carries r.   *)

TimeRaw == {Bad} \cup {Raw(n) : n \in 1..MaxTime}
RunRaw == {Bad, Raw(1), Raw(2)}
\* 45.4 is written 454: -1.4, 50.5, 151.6 and 500.6
AqiRaw == {Bad, Raw(0 - 14), Raw(505), Raw(1516), Raw(5006)}

CellOf(name, b) ==
  IF InLower("time", name) THEN b.t
  ELSE IF InLower("aqi", name) THEN b.a
  ELSE IF InLower("prediction_date", name) THEN b.r
  ELSE StrCell("v1")

MkFrame(cols, bases) ==
  [cols |-> cols,
   rows |-> [i \in 1..Len(bases) |->
              [src |-> i,
               cells |-> [j \in 1..Len(cols) |-> CellOf(cols[j], bases[i])]]]]

Injective(s) == \A i, j \in 1..Len(s) : s[i] = s[j] => i = j

ColumnLists ==
  UNION {{s \in [1..n -> ColumnNames] : Injective(s)} : n \in 1..MaxCols}

\* every list of up to MaxCols distinct column names, over two small row sets
SchemaRows ==
  {<<[t |-> Raw(1), r |-> Raw(1), a |-> Raw(454)]>>,
   <<[t |-> Raw(3), r |-> Raw(1), a |-> Raw(1516)],
     [t |-> Raw(1), r |-> Raw(2), a |-> Bad]>>}

SchemaDatasets == {MkFrame(s, b) : s \in ColumnLists, b \in SchemaRows}

\* well-formed schemas with every choice of forecast and run times
TimingSchemas ==
  {<<"datetime_utc", "predicted_us_aqi", "prediction_date">>,
   <<"timestamp", "aqi">>}

TimingBases == [t : TimeRaw, r : RunRaw, a : {Raw(454)}]

TimingDatasets ==
  UNION {{MkFrame(s, b) : s \in TimingSchemas, b \in [1..n -> TimingBases]} :
         n \in 1..MaxRows}

\* a well-formed schema with every choice of AQI readings
AqiSchema == <<"datetime_utc", "predicted_us_aqi">>

AqiDatasets ==
  UNION {{MkFrame(AqiSchema,
                  [i \in 1..n |-> [t |-> Raw(i), r |-> Raw(1), a |-> f[i]]]) :
          f \in [1..n -> AqiRaw]} : n \in 1..MaxRows}

\* a CSV file that holds a header and no row
EmptyDatasets == {MkFrame(s, <<>>) : s \in TimingSchemas}

Datasets == SchemaDatasets \cup TimingDatasets \cup AqiDatasets \cup EmptyDatasets

Sources == {"Feature Store", "Local CSV Backup"}

OtherSource(s) == IF s = "Feature Store" THEN "Local CSV Backup" ELSE "Feature Store"

(* ------------------------------- Init ---------------------------------- *)

Unknown == StrCell("Unknown")

\* the error a loader returns beside a dataset: None
NoError == "None"

Init ==
  /\ pc = "load"
  /\ err = ""
  /\ data_source = ""
  /\ error = NoError
  /\ tried = <<>>
  /\ raw = EmptyFrame
  /\ df = EmptyFrame
  /\ datetime_cols = <<>>
  /\ aqi_cols = <<>>
  /\ latest_preds = EmptyFrame
  /\ latest_run_time = Unknown
  /\ shown = {}
  /\ now = NoNow
  /\ current_idx = 0
  /\ arg = 0
  /\ res = ""

(* ------------------------ aqi_category, called ------------------------- *)

AqiArgs == (0 - Margin)..(500 + Margin)

CallCategory ==
  /\ pc = "load"
  /\ \E v \in AqiArgs :
       /\ arg' = v
       /\ res' = aqi_category(v)
  /\ pc' = "called"
  /\ UNCHANGED <<err, data_source, error, tried, raw, df, datetime_cols, aqi_cols,
                 latest_preds, latest_run_time, shown, now, current_idx>>

(* ------------------------- main: loading data -------------------------- *)

\* A loader returns (df, None) or (None, error).  load_predictions_data
\* returns no dataset without rows; load_backup_csv may.
Returns(source, ok, d) ==
  ok /\ (source = "Feature Store" => Len(d.rows) > 0)

\* The error messages a loader may return in place of a dataset.  The
\* feature store loader returns str(e) for any exception, which is the
\* empty string for an exception raised without a message.
ErrorsOf(source) ==
  IF source = "Feature Store"
  THEN {"Feature group is empty. Run inference pipeline first.", ""}
  ELSE {"No CSV backup files found"}

LoadData ==
  /\ pc = "load"
  /\ \E source \in Sources, firstOk \in BOOLEAN, secondOk \in BOOLEAN, d \in Datasets :
       \E message \in ErrorsOf(source) :
         LET other == OtherSource(source)
             first == Returns(source, firstOk, d)
             error1 == IF first THEN NoError ELSE message
             \* if error:
             fallback == error1 \notin {NoError, ""}
             second == fallback /\ Returns(other, secondOk, d)
             \* df is not None
             present == first \/ second
             calls == IF fallback THEN <<source, other>> ELSE <<source>>
             msgs == IF ~fallback THEN {}
                     ELSE IF second THEN {"error_load", "success_alternative"}
                     ELSE {"error_load", "error_no_source"}
         IN /\ data_source' = source
            /\ error' = error1
            /\ tried' = calls
            /\ IF fallback /\ ~second
               THEN /\ pc' = "stopped_no_source"
                    /\ shown' = msgs
                    /\ UNCHANGED <<raw, df>>
               ELSE IF ~present \/ Len(d.rows) = 0
               THEN /\ pc' = "stopped_no_data"
                    /\ shown' = msgs \cup {"warning_no_data"}
                    /\ UNCHANGED <<raw, df>>
               ELSE /\ pc' = "map"
                    /\ shown' = msgs
                    /\ raw' = d
                    /\ df' = d
  /\ UNCHANGED <<err, datetime_cols, aqi_cols, latest_preds, latest_run_time,
                 now, current_idx, arg, res>>

(* ----------------------- main: column mapping -------------------------- *)

IsDatetimeCol_date(col) == InLower("date", col) \/ InLower("time", col)

IsDatetimeCol(col) == InLower("datetime", col) \/ InLower("time", col)

IsAqiCol(col) == InLower("aqi", col)

\* the elif chain of the "smart column mapping" loop; col itself when no
\* branch matches
MappedName(col) ==
  IF InLower("datetime_utc", col) THEN "forecast_date_utc"
  ELSE IF InLower("datetime", col) /\ ~InLower("utc", col) THEN "forecast_date_local"
  ELSE IF InLower("predicted_us_aqi", col) THEN "us_aqi"
  ELSE IF InLower("prediction_date", col) THEN "prediction_time"
  ELSE IF InLower("model_version", col) THEN "model_version"
  ELSE IF InLower("forecast_hour", col) THEN "forecast_hour"
  ELSE col

column_mapping(f) ==
  [col \in {f.cols[j] : j \in 1..Len(f.cols)} |-> MappedName(col)]

\* df.rename(columns=mapping)
Rename(f, mapping) ==
  [f EXCEPT !.cols = [j \in 1..Len(f.cols) |->
     IF f.cols[j] \in DOMAIN mapping THEN mapping[f.cols[j]] ELSE f.cols[j]]]

\* what reading f[n] as one column raises: "" when n names one column
ReadError(f, n) ==
  IF ~HasCol(f, n) THEN "KeyError"
  ELSE IF ~OneCol(f, n) THEN "ValueError"
  ELSE ""

MapColumns ==
  /\ pc = "map"
  /\ LET dcols == SelectSeq(df.cols, IsDatetimeCol)
         acols == SelectSeq(df.cols, IsAqiCol)
         renamed == Rename(df, column_mapping(df))
         needAqi == ~HasCol(renamed, "us_aqi") /\ acols # <<>>
         aqiErr == IF needAqi THEN ReadError(renamed, acols[1]) ELSE ""
         withAqi == IF needAqi /\ aqiErr = ""
                    THEN SetCol(renamed, "us_aqi", Column(renamed, acols[1]))
                    ELSE renamed
         needTime == ~HasCol(withAqi, "forecast_date_utc") /\ dcols # <<>>
         timeErr == IF needTime THEN ReadError(withAqi, dcols[1]) ELSE ""
         withTime == IF needTime /\ timeErr = ""
                     THEN SetCol(withAqi, "forecast_date_utc", Column(withAqi, dcols[1]))
                     ELSE withAqi
     IN /\ datetime_cols' = dcols
        /\ aqi_cols' = acols
        /\ IF aqiErr # ""
           THEN /\ df' = renamed
                /\ err' = aqiErr
                /\ pc' = "crashed"
           ELSE IF timeErr # ""
           THEN /\ df' = withAqi
                /\ err' = timeErr
                /\ pc' = "crashed"
           ELSE /\ df' = withTime
                /\ err' = err
                /\ pc' = "parse"
  /\ UNCHANGED <<data_source, error, tried, raw, latest_preds, latest_run_time, shown,
                 now, current_idx, arg, res>>

(* ---------------------- main: parsing timestamps ---------------------- *)

\* pd.to_datetime(..., errors='coerce') of one value, then anchoring to UTC
to_datetime(c) ==
  IF c.kind = "raw" THEN Ts(c.num)
  ELSE IF c.kind = "ts" THEN c
  ELSE NaT

\* .dt.tz_convert(zone): the same instant in another zone
tz_convert(c) == c

\* f[n] = pd.to_datetime(f[n], errors='coerce'), anchored to UTC
ParseColumn(f, n) ==
  SetCol(f, n, [i \in 1..Len(f.rows) |-> to_datetime(Cell(f, f.rows[i], n))])

\* pd.to_datetime of a label that names several columns is handed a
\* DataFrame and raises
ParseError(f, n) == IF HasCol(f, n) /\ ~OneCol(f, n) THEN "ValueError" ELSE ""

ParseTimes ==
  /\ pc = "parse"
  /\ LET fErr == ParseError(df, "forecast_date_utc")
         parsedF == ParseColumn(df, "forecast_date_utc")
         withPkt == IF HasCol(df, "forecast_date_utc") /\ fErr = ""
                    THEN SetCol(parsedF, "forecast_date_pkt",
                                [i \in 1..Len(parsedF.rows) |->
                                   tz_convert(Cell(parsedF, parsedF.rows[i], "forecast_date_utc"))])
                    ELSE df
         pErr == ParseError(withPkt, "prediction_time")
         withRun == IF HasCol(withPkt, "prediction_time") /\ pErr = ""
                    THEN SetCol(withPkt, "prediction_time",
                                [i \in 1..Len(withPkt.rows) |->
                                   tz_convert(to_datetime(Cell(withPkt, withPkt.rows[i], "prediction_time")))])
                    ELSE withPkt
     IN IF fErr # ""
        THEN /\ err' = fErr
             /\ pc' = "crashed"
             /\ df' = df
        ELSE IF pErr # ""
        THEN /\ err' = pErr
             /\ pc' = "crashed"
             /\ df' = withPkt
        ELSE /\ err' = err
             /\ pc' = "select"
             /\ df' = withRun
  /\ UNCHANGED <<data_source, error, tried, raw, datetime_cols, aqi_cols, latest_preds,
                 latest_run_time, shown, now, current_idx, arg, res>>

(* ------------------- main: keeping the latest run ---------------------- *)

\* the valid values of a timestamp column
ValidTimes(f, n) ==
  {Cell(f, f.rows[i], n).num : i \in {k \in 1..Len(f.rows) : Cell(f, f.rows[k], n).kind = "ts"}}

\* not f[n].isna().all()
AnyValid(f, n) == ValidTimes(f, n) # {}

Earliest(f, n) == CHOOSE m \in ValidTimes(f, n) : \A x \in ValidTimes(f, n) : m <= x

\* f[n].max(), which skips NaT
Latest(f, n) == CHOOSE m \in ValidTimes(f, n) : \A x \in ValidTimes(f, n) : m >= x

\* f[f[n] == t]
RowsAt(f, n, t) ==
  [f EXCEPT !.rows = SelectSeq(f.rows, LAMBDA row : Cell(f, row, n) = t)]

SelectLatest ==
  /\ pc = "select"
  /\ IF HasCol(df, "prediction_time") /\ AnyValid(df, "prediction_time")
     THEN /\ latest_run_time' = Ts(Latest(df, "prediction_time"))
          /\ latest_preds' = RowsAt(df, "prediction_time", Ts(Latest(df, "prediction_time")))
     ELSE /\ latest_run_time' = Unknown
          /\ latest_preds' = df
  /\ pc' = "sort"
  /\ UNCHANGED <<err, data_source, error, tried, raw, df, datetime_cols, aqi_cols, shown,
                 now, current_idx, arg, res>>

(* --------------------- main: sorting by forecast time ------------------ *)

\* p orders the rows of f by column n: valid times ascending, NaT last in
\* the order they had.  The order of rows with equal times is left to the
\* sort (the default kind is not stable).
SortsBy(f, n, p) ==
  \A i, j \in 1..Len(f.rows) :
    i < j =>
      LET a == Cell(f, f.rows[p[i]], n)
          b == Cell(f, f.rows[p[j]], n)
      IN /\ (a.kind = "ts" /\ b.kind = "ts") => a.num <= b.num
         /\ a.kind # "ts" => b.kind # "ts"
         /\ (a.kind # "ts" /\ b.kind # "ts") => p[i] < p[j]

sort_values_unsorted(f, n) == {f}

\* the results f.sort_values(n).reset_index(drop=True) may give
sort_values(f, n) ==
  {[f EXCEPT !.rows = [i \in 1..Len(f.rows) |-> f.rows[p[i]]]] :
     p \in {q \in [1..Len(f.rows) -> 1..Len(f.rows)] : Injective(q) /\ SortsBy(f, n, q)}}

SortForecasts ==
  /\ pc = "sort"
  /\ IF HasCol(latest_preds, "forecast_date_utc")
     THEN latest_preds' \in sort_values(latest_preds, "forecast_date_utc")
     ELSE IF HasCol(latest_preds, "forecast_date_pkt")
     THEN latest_preds' \in sort_values(latest_preds, "forecast_date_pkt")
     ELSE latest_preds' = latest_preds
  /\ pc' = "categorize"
  /\ UNCHANGED <<err, data_source, error, tried, raw, df, datetime_cols, aqi_cols,
                 latest_run_time, shown, now, current_idx, arg, res>>

(* ------------------- main: integer AQI and categories ------------------ *)

\* pd.to_numeric(..., errors='coerce'): NaN for what is no number
to_numeric(c) ==
  IF c.kind = "raw" THEN [nan |-> FALSE, tenths |-> c.num]
  ELSE IF c.kind = "int" THEN [nan |-> FALSE, tenths |-> 10 * c.num]
  ELSE [nan |-> TRUE, tenths |-> 0]

\* .fillna(0)
fillna0(x) == IF x.nan THEN [nan |-> FALSE, tenths |-> 0] ELSE x

\* .round().astype(int): to the nearest integer, a half to the even one
round_int(x) ==
  LET q == x.tenths \div 10
      r == x.tenths % 10
  IN IF r < 5 THEN q
     ELSE IF r > 5 THEN q + 1
     ELSE IF q % 2 = 0 THEN q ELSE q + 1

AqiInt(c) == round_int(fillna0(to_numeric(c)))

Categorize ==
  /\ pc = "categorize"
  /\ IF ~HasCol(latest_preds, "us_aqi")
     THEN /\ shown' = shown \cup {"error_no_aqi"}
          /\ pc' = "stopped_no_aqi"
          /\ UNCHANGED <<err, latest_preds>>
     ELSE IF ~OneCol(latest_preds, "us_aqi")
     THEN /\ err' = "TypeError"
          /\ pc' = "crashed"
          /\ UNCHANGED <<shown, latest_preds>>
     ELSE LET n == Len(latest_preds.rows)
              aqi == [i \in 1..n |-> AqiInt(Cell(latest_preds, latest_preds.rows[i], "us_aqi"))]
              f1 == SetCol(latest_preds, "us_aqi", [i \in 1..n |-> IntCell(aqi[i])])
              f2 == SetCol(f1, "category", [i \in 1..n |-> StrCell(aqi_category(aqi[i]))])
              f3 == SetCol(f2, "color", [i \in 1..n |-> StrCell(aqi_color(aqi[i]))])
          IN /\ latest_preds' = f3
             /\ pc' = "metrics"
             /\ UNCHANGED <<err, shown>>
  /\ UNCHANGED <<data_source, error, tried, raw, df, datetime_cols, aqi_cols,
                 latest_run_time, now, current_idx, arg, res>>

(* ------------------- main: metrics, run info, legend ------------------- *)

ShowMetrics ==
  /\ pc = "metrics"
  /\ LET total_predictions == Len(latest_preds.rows)
         range == IF total_predictions > 0 /\ HasCol(latest_preds, "forecast_date_pkt")
                  THEN {"forecast_range"} ELSE {}
     IN IF total_predictions = 0
        THEN /\ shown' = shown \cup {"metrics", "run_info", "legend", "warning_no_predictions"}
             /\ pc' = "stopped_empty"
        ELSE /\ shown' = shown \cup {"metrics", "run_info", "legend"} \cup range
             /\ pc' = "current"
  /\ UNCHANGED <<err, data_source, error, tried, raw, df, datetime_cols, aqi_cols,
                 latest_preds, latest_run_time, now, current_idx, arg, res>>

(* ------------------ main: current forecasted AQI ----------------------- *)

NowValues == 0..(MaxTime + 1)

Abs(x) == IF x < 0 THEN 0 - x ELSE x

time_diff_filled(f, t) ==
  [i \in 1..Len(f.rows) |->
     LET c == Cell(f, f.rows[i], "forecast_date_pkt")
     IN IF c.kind = "ts" THEN IntCell(Abs(c.num - t)) ELSE IntCell(0)]

\* (f['forecast_date_pkt'] - now).abs(): NaT where the time is NaT
time_diff(f, t) ==
  [i \in 1..Len(f.rows) |->
     LET c == Cell(f, f.rows[i], "forecast_date_pkt")
     IN IF c.kind = "ts" THEN IntCell(Abs(c.num - t)) ELSE NaT]

IsMin(d, i) ==
  /\ d[i].kind = "int"
  /\ \A k \in 1..Len(d) : d[k].kind = "int" => d[i].num <= d[k].num

idxmin_last(d) == CHOOSE i \in 1..Len(d) : IsMin(d, i) /\ \A k \in 1..Len(d) : IsMin(d, k) => k <= i

\* d.idxmin(): the position (from 1) of the first least value, NaT skipped
idxmin(d) == CHOOSE i \in 1..Len(d) : IsMin(d, i) /\ \A k \in 1..Len(d) : IsMin(d, k) => i <= k

ShowCurrent ==
  /\ pc = "current"
  /\ IF HasCol(latest_preds, "forecast_date_pkt")
     THEN \E t \in NowValues :
            LET d == time_diff(latest_preds, t)
            IN /\ now' = t
               /\ latest_preds' = SetCol(latest_preds, "time_diff", d)
               /\ IF \E i \in 1..Len(d) : d[i].kind = "int"
                  THEN /\ current_idx' = idxmin(d)
                       /\ shown' = shown \cup {"current"}
                       /\ err' = err
                       /\ pc' = "chart"
                  ELSE \* idxmin of an all-NaT column: it raises, or gives
                       \* NaN and the .loc lookup raises
                       /\ err' \in {"ValueError", "KeyError"}
                       /\ pc' = "crashed"
                       /\ UNCHANGED <<current_idx, shown>>
     ELSE /\ pc' = "chart"
          /\ UNCHANGED <<err, latest_preds, shown, now, current_idx>>
  /\ UNCHANGED <<data_source, error, tried, raw, df, datetime_cols, aqi_cols,
                 latest_run_time, arg, res>>

(* ------------------ main: chart, table, download, footer --------------- *)

ShowForecast ==
  /\ pc = "chart"
  /\ IF Len(latest_preds.rows) > 0 /\ HasCol(latest_preds, "forecast_date_pkt")
     THEN \E show_advanced \in BOOLEAN :
            shown' = shown \cup {"chart", "table", "download"}
                           \cup (IF show_advanced THEN {"advanced"} ELSE {})
     ELSE shown' = shown \cup {"warning_no_forecast"}
  /\ pc' = "done"
  /\ UNCHANGED <<err, data_source, error, tried, raw, df, datetime_cols, aqi_cols,
                 latest_preds, latest_run_time, now, current_idx, arg, res>>

Next ==
  \/ CallCategory
  \/ LoadData
  \/ MapColumns
  \/ ParseTimes
  \/ SelectLatest
  \/ SortForecasts
  \/ Categorize
  \/ ShowMetrics
  \/ ShowCurrent
  \/ ShowForecast

Spec == Init /\ [][Next]_vars

(* ============================== claims ================================= *)

Rows(f) == {f.rows[i] : i \in 1..Len(f.rows)}

\* main has loaded a dataset and entered data processing
Processing == pc \notin {"load", "called", "stopped_no_source", "stopped_no_data"}

\* the latest run has been selected and sorted, and main has not crashed
Sorted == pc \in {"categorize", "metrics", "current", "chart", "done",
                  "stopped_no_aqi", "stopped_empty"}

\* the AQI column has been rounded and categorized, and main has not crashed
Categorized == pc \in {"metrics", "current", "chart", "done", "stopped_empty"}

\* main has ended
Ended == pc \in {"done", "crashed", "stopped_no_aqi", "stopped_empty"}

Severity(label) ==
  CASE label = "Good" -> 1
    [] label = "Moderate" -> 2
    [] label = "Unhealthy for Sensitive Groups" -> 3
    [] label = "Unhealthy" -> 4
    [] label = "Very Unhealthy" -> 5
    [] label = "Hazardous" -> 6
    [] OTHER -> 0

\* C1: for every AQI value in 0..500 aqi_category returns one of the six
\* labels, no smaller value gets a more severe label, and 50 is Good, 51
\* Moderate, 300 Very Unhealthy, 301 Hazardous.
C1_CategoryMonotone ==
  (pc = "called" /\ arg \in 0..500) =>
    /\ res \in Labels
    /\ \A w \in 0..arg : Severity(aqi_category(w)) <= Severity(res)
    /\ arg = 50 => res = "Good"
    /\ arg = 51 => res = "Moderate"
    /\ arg = 300 => res = "Very Unhealthy"
    /\ arg = 301 => res = "Hazardous"

C1_Witness == pc = "called" /\ arg = 51 /\ res = "Moderate"

\* C2, as claimed: an AQI value below 0 or above 500 gets no category (the
\* classifier fails with RangeError), called directly or applied by main to
\* the us_aqi column.
C2_OutOfRangeFails ==
  /\ (pc = "called" /\ arg \notin 0..500) => res \notin Labels
  /\ Categorized =>
       \A row \in Rows(latest_preds) :
         Cell(latest_preds, row, "us_aqi").num \notin 0..500 =>
           Cell(latest_preds, row, "category").str \notin Labels

\* C2, amended: no range check is made.  Every value below 0 is classified
\* Good and every value above 500 Hazardous, called directly or applied by
\* main to the us_aqi column.
C2_OutOfRangeClassified ==
  /\ pc = "called" =>
       /\ arg < 0 => res = "Good"
       /\ arg > 500 => res = "Hazardous"
  /\ Categorized =>
       \A row \in Rows(latest_preds) :
         LET v == Cell(latest_preds, row, "us_aqi").num
             c == Cell(latest_preds, row, "category").str
         IN /\ v < 0 => c = "Good"
            /\ v > 500 => c = "Hazardous"

C2_Witness ==
  /\ Categorized
  /\ \E row \in Rows(latest_preds) :
       /\ Cell(latest_preds, row, "us_aqi").num > 500
       /\ Cell(latest_preds, row, "category").str = "Hazardous"
  /\ \E row \in Rows(latest_preds) :
       /\ Cell(latest_preds, row, "us_aqi").num < 0
       /\ Cell(latest_preds, row, "category").str = "Good"

\* C3: a row whose raw AQI value is missing or not numeric never appears in
\* the series as AQI 0, category Good.
C3_NoDefaultForMissingAqi ==
  Categorized =>
    \A row \in Rows(latest_preds) :
      Cell(df, df.rows[row.src], "us_aqi").kind = "bad" =>
        ~ /\ Cell(latest_preds, row, "us_aqi") = IntCell(0)
          /\ Cell(latest_preds, row, "category").str = "Good"

NoAqiLike(f) ==
  \A j \in 1..Len(f.cols) :
    ~InLower("predicted_us_aqi", f.cols[j]) /\ ~InLower("aqi", f.cols[j])

\* C4: for a dataset with no AQI-like column name main reports the missing
\* AQI column and stops, and produces no metric, category, chart or table.
C4_NoAqiColumnReported ==
  (Processing /\ NoAqiLike(raw)) =>
    /\ shown \cap {"metrics", "current", "chart", "table"} = {}
    /\ ~HasCol(latest_preds, "category")
    /\ Ended => (pc = "stopped_no_aqi" /\ "error_no_aqi" \in shown)

NoTimeLike(f) ==
  \A j \in 1..Len(f.cols) :
    /\ ~InLower("datetime_utc", f.cols[j])
    /\ ~InLower("datetime", f.cols[j])
    /\ ~InLower("time", f.cols[j])

\* C5, as claimed: for a dataset with no time-like column name the call
\* fails before latest-run selection, AQI categorization and the metrics
\* display.
C5_NoTimeColumnStops ==
  (Processing /\ NoTimeLike(raw)) =>
    /\ pc \in {"map", "parse", "select", "crashed"}
    /\ latest_preds = EmptyFrame
    /\ "metrics" \notin shown

CanonicalNames ==
  {"forecast_date_utc", "forecast_date_local", "us_aqi", "prediction_time",
   "model_version", "forecast_hour"}

Duplicated(f) == \E n \in CanonicalNames : Cardinality(ColIdx(f, n)) > 1

\* no column name is time-like, and none is a forecast time column already
NoForecastTime(f) ==
  /\ NoTimeLike(f)
  /\ \A j \in 1..Len(f.cols) : f.cols[j] \notin {"forecast_date_utc", "forecast_date_pkt"}

\* C5, amended: a dataset with no time-like column name (and no column
\* named forecast_date_utc or forecast_date_pkt) raises no schema error.  No
\* forecast time column is made for it and its rows are never sorted; and
\* whenever its canonicalized columns hold one us_aqi column and no label
\* twice, main runs to its end: latest-run selection, the categories and the
\* metrics are produced, the nearest-now display, chart and table are not,
\* and the 'no forecast data' warning is shown.
C5_NoTimeColumnDegrades ==
  (Processing /\ NoForecastTime(raw)) =>
    /\ ~HasCol(df, "forecast_date_utc") /\ ~HasCol(df, "forecast_date_pkt")
    /\ Sorted => \A i, j \in 1..Len(latest_preds.rows) :
                   i < j => latest_preds.rows[i].src < latest_preds.rows[j].src
    /\ (Ended /\ OneCol(df, "us_aqi") /\ Injective(df.cols)) => pc = "done"
    /\ pc = "done" =>
         /\ latest_preds.rows # <<>>
         /\ HasCol(latest_preds, "category")
         /\ {"metrics", "warning_no_forecast"} \subseteq shown
         /\ shown \cap {"current", "chart", "table"} = {}

C5_Witness ==
  /\ NoTimeLike(raw)
  /\ pc = "done"
  /\ "metrics" \in shown
  /\ latest_run_time # Unknown

\* C6: when some run time is valid, latest-run selection returns exactly the
\* rows whose prediction time is the greatest valid one: every row returned
\* carries it, every input row carrying it is returned once, and no row of
\* an older run or with an invalid run time is returned.
C6_LatestRunOnly ==
  (pc = "sort" /\ HasCol(df, "prediction_time")) =>
    LET runOf(row) == Cell(df, row, "prediction_time")
        valid == {row \in Rows(df) : runOf(row).kind = "ts"}
    IN valid # {} =>
         /\ \A row \in Rows(latest_preds) :
              /\ row \in valid
              /\ \A other \in valid : runOf(other).num <= runOf(row).num
         /\ \A i \in 1..Len(df.rows) :
              (/\ df.rows[i] \in valid
               /\ \A other \in valid : runOf(other).num <= runOf(df.rows[i]).num)
              => Cardinality({k \in 1..Len(latest_preds.rows) :
                                latest_preds.rows[k] = df.rows[i]}) = 1
         /\ latest_run_time.kind = "ts"
         /\ \A other \in valid : runOf(other).num <= latest_run_time.num

C6_Witness ==
  /\ pc = "sort"
  /\ HasCol(df, "prediction_time")
  /\ Len(latest_preds.rows) < Len(df.rows)
  /\ \E row \in Rows(df) :
       /\ Cell(df, row, "prediction_time").kind = "ts"
       /\ Cell(df, row, "prediction_time").num < latest_run_time.num

\* C7: no row of the sorted series has an invalid forecast_date_utc: rows
\* whose forecast timestamp did not parse have been dropped.
C7_InvalidTimesDropped ==
  (Sorted /\ HasCol(latest_preds, "forecast_date_utc")) =>
    \A row \in Rows(latest_preds) :
      Cell(latest_preds, row, "forecast_date_utc").kind = "ts"

\* C8, as claimed: of two consecutive rows of the sorted series the later
\* has the strictly greater forecast_date_utc.
C8_StrictlyAscending ==
  (Sorted /\ HasCol(latest_preds, "forecast_date_utc")) =>
    \A i \in 1..(Len(latest_preds.rows) - 1) :
      LET a == Cell(latest_preds, latest_preds.rows[i], "forecast_date_utc")
          b == Cell(latest_preds, latest_preds.rows[i + 1], "forecast_date_utc")
      IN (a.kind = "ts" /\ b.kind = "ts") => a.num < b.num

\* C8, amended: the sorted series is in ascending forecast_date_utc order
\* that need not be strict: rows of the latest run with the same forecast
\* time are all kept, and rows with an invalid forecast time come after
\* every row with a valid one.
C8_Ascending ==
  (Sorted /\ HasCol(latest_preds, "forecast_date_utc")) =>
    \A i, j \in 1..Len(latest_preds.rows) :
      i < j =>
        LET a == Cell(latest_preds, latest_preds.rows[i], "forecast_date_utc")
            b == Cell(latest_preds, latest_preds.rows[j], "forecast_date_utc")
        IN /\ (a.kind = "ts" /\ b.kind = "ts") => a.num <= b.num
           /\ a.kind # "ts" => b.kind # "ts"

C8_Witness ==
  /\ Sorted
  /\ HasCol(latest_preds, "forecast_date_utc")
  /\ Len(latest_preds.rows) = 2
  /\ Cell(latest_preds, latest_preds.rows[1], "forecast_date_utc").kind = "ts"
  /\ Cell(latest_preds, latest_preds.rows[1], "forecast_date_utc")
       = Cell(latest_preds, latest_preds.rows[2], "forecast_date_utc")
  /\ latest_preds.rows[1].src # latest_preds.rows[2].src

\* C9: over a series with at least one valid forecast time the nearest-now
\* lookup returns a row, its distance to now is the least of the series, and
\* of the rows at that distance it has the earliest forecast time.
C9_NearestNow ==
  (now # NoNow /\ \E row \in Rows(latest_preds) :
                    Cell(latest_preds, row, "forecast_date_pkt").kind = "ts") =>
    /\ pc \in {"chart", "done"}
    /\ current_idx \in 1..Len(latest_preds.rows)
    /\ LET at(k) == Cell(latest_preds, latest_preds.rows[k], "forecast_date_pkt")
       IN /\ at(current_idx).kind = "ts"
          /\ \A k \in 1..Len(latest_preds.rows) :
               at(k).kind = "ts" =>
                 /\ Abs(at(current_idx).num - now) <= Abs(at(k).num - now)
                 /\ Abs(at(current_idx).num - now) = Abs(at(k).num - now)
                      => at(current_idx).num <= at(k).num

C9_Witness ==
  /\ pc = "chart"
  /\ now # NoNow
  /\ \E k \in 1..Len(latest_preds.rows) :
       LET at(i) == Cell(latest_preds, latest_preds.rows[i], "forecast_date_pkt")
       IN /\ at(k).kind = "ts"
          /\ at(current_idx).num < at(k).num
          /\ Abs(at(current_idx).num - now) = Abs(at(k).num - now)

\* C10: the canonicalized dataset has one column per canonical field name,
\* also when several raw columns are candidates for the same field.
C10_OneColumnPerCanonicalField ==
  pc = "parse" => ~Duplicated(df)

\* C11: the nearest-now lookup is evaluated only over a series that the
\* emptiness check has let through (an empty series ends main with the
\* warning, before any lookup), and a series in which no row has a valid
\* forecast time gets a failure (the lookup raises), never a row: every row
\* the lookup returns is a row of the series with a valid forecast time.
C11_LookupGuarded ==
  /\ pc \in {"current", "chart", "done"} =>
       /\ latest_preds.rows # <<>>
       /\ "warning_no_predictions" \notin shown
  /\ pc = "stopped_empty" =>
       /\ "warning_no_predictions" \in shown
       /\ now = NoNow
  /\ now # NoNow =>
       /\ latest_preds.rows # <<>>
       /\ {"metrics", "legend"} \subseteq shown
       /\ IF \E row \in Rows(latest_preds) :
               Cell(latest_preds, row, "forecast_date_pkt").kind = "ts"
          THEN /\ pc \in {"chart", "done"}
               /\ "current" \in shown
          ELSE /\ pc = "crashed"
               /\ err \in {"ValueError", "KeyError"}
               /\ current_idx = 0
               /\ "current" \notin shown
  /\ "current" \in shown =>
       /\ current_idx \in 1..Len(latest_preds.rows)
       /\ Cell(latest_preds, latest_preds.rows[current_idx], "forecast_date_pkt").kind = "ts"

C11_Witness ==
  /\ now # NoNow
  /\ pc = "crashed"
  /\ latest_preds.rows # <<>>
  /\ \A row \in Rows(latest_preds) :
       Cell(latest_preds, row, "forecast_date_pkt").kind = "NaT"

\* C12: data loading is a two-source fallback.  When the selected source
\* returns an error the other source is called, once, and no source is
\* called otherwise; when neither returns a dataset main stops and nothing
\* is processed; and data processing is entered only with a dataset that
\* has at least one row.
C12_TwoSourceFallback ==
  pc \notin {"load", "called"} =>
    /\ error # NoError => tried = <<data_source, OtherSource(data_source)>>
    /\ error = NoError => tried = <<data_source>>
    /\ pc \in {"stopped_no_source", "stopped_no_data"} =>
         /\ raw = EmptyFrame /\ df = EmptyFrame /\ latest_preds = EmptyFrame
         /\ shown \cap {"metrics", "current", "chart", "table"} = {}
    /\ pc = "stopped_no_source" => error # NoError
    /\ Processing => (raw.rows # <<>> /\ df.rows # <<>>)

====
